---------------------------- MODULE Spec2Model ----------------------------
(***************************************************************************)
(* Aircraft assignment as a 0/1 linear model: the two scripts of the       *)
(* repository, base.py (maintenance fixed by an input schedule) and        *)
(* flights_and_maintenance_sched.py (maintenance chosen by the solver).    *)
(*                                                                         *)
(* Each script is a straight line of statements: it adds the objective and *)
(* one family of constraints after another to `problem`, calls the solver, *)
(* and prints the values the solver left in the variables.  `pc` is the    *)
(* position in the script; one action models one statement (a whole loop). *)
(* The solver is the only external part: it returns a satisfying           *)
(* assignment of least objective value, or reports Infeasible.             *)
(***************************************************************************)
EXTENDS Integers, FiniteSets, Sequences

\* Bounds of the model.
MaxLen == 3        \* longest fixed maintenance schedule (base.py horizon)
MaxSched == 5      \* largest schedule_length (flights_and_maintenance_sched.py)
MaxDur == 2        \* longest flight duration, in slots

\* flights_and_maintenance_sched.py:57, the right-hand side of the requirement
MaintenanceRequired == 4

VARIABLES variant, flight_durations, flight_costs, aircraft_ids, horizon,
          maintenance_schedules, max_maintenance,
          objective, problem, pc, status, values, out

vars == <<variant, flight_durations, flight_costs, aircraft_ids, horizon,
          maintenance_schedules, max_maintenance,
          objective, problem, pc, status, values, out>>

inputs == <<variant, flight_durations, flight_costs, aircraft_ids, horizon,
            maintenance_schedules, max_maintenance>>

(***************************************************************************)
(* Input data.  The scripts carry three to five flights and three          *)
(* aircraft; the model keeps two flights and one or two aircraft.          *)
(***************************************************************************)
flight_ids == {1, 2}

Fleets == {{1}, {1, 2}}

\* rows of per-aircraft costs, one row per flight
CostTables ==
    { [f \in flight_ids |-> IF f = 1 THEN <<10, 15>> ELSE <<12, 18>>],
      [f \in flight_ids |-> IF f = 1 THEN <<10, 15>> ELSE <<18, 12>>] }

\* range(len(maintenance_schedules[0])) / range(schedule_length)
Slots == 0 .. (horizon - 1)

Max(x, y) == IF x >= y THEN x ELSE y
Min(x, y) == IF x <= y THEN x ELSE y

\* Python's range(lo, hi)
Range(lo, hi) == lo .. (hi - 1)

(***************************************************************************)
(* Decision variables.  F_A_T keyed by (flight, aircraft, time), M_A_T     *)
(* keyed by (aircraft, time); both binary.  An assignment of values is     *)
(* the set of the variables whose value is 1.                              *)
(***************************************************************************)
FVar(f, a, t) == <<"F", f, a, t>>
MVar(a, t) == <<"M", 0, a, t>>

FlightOf(v) == v[2]
AircraftOf(v) == v[3]
TimeOf(v) == v[4]

var_dict == { FVar(f, a, t) : f \in flight_ids, a \in aircraft_ids, t \in Slots }
maintenance_var_dict == { MVar(a, t) : a \in aircraft_ids, t \in Slots }

AllVars == var_dict \cup maintenance_var_dict

(***************************************************************************)
(* A linear constraint with unit coefficients:                             *)
(*     sum of c.vars  c.rel  c.rhs                                         *)
(* `kind` records which statement of the script added it.                  *)
(***************************************************************************)
Constraint(kind, vs, rel, rhs) == [kind |-> kind, vars |-> vs, rel |-> rel, rhs |-> rhs]

Holds(c, val) ==
    LET n == Cardinality(c.vars \cap val)
    IN  IF c.rel = "eq" THEN n = c.rhs ELSE n <= c.rhs


(***************************************************************************)
(* The statements that build the model.                                    *)
(***************************************************************************)
\* faulty form: the cost table indexed the wrong way round
ObjectiveTransposed == [v \in var_dict |-> flight_costs[AircraftOf(v)][FlightOf(v)]]

\* lpSum([var_dict[(f, a, t)] * flight_costs[f - 1][a - 1] for f, a, t in var_dict])
ObjectiveCoefficients == [v \in var_dict |-> flight_costs[FlightOf(v)][AircraftOf(v)]]

\* faulty form: the sum runs over the slots of the first aircraft only
UniquenessFirstAircraft(f) ==
    Constraint("unique", { FVar(f, 1, t) : t \in Slots }, "eq", 1)

\* faulty form: at most one start instead of exactly one
UniquenessAtMostOne(f) ==
    Constraint("unique", { FVar(f, a, t) : a \in aircraft_ids, t \in Slots }, "le", 1)

\* lpSum([var_dict[(f, a, t)] for a in aircraft_ids for t in range(...)]) == 1
UniquenessConstraint(f) ==
    Constraint("unique", { FVar(f, a, t) : a \in aircraft_ids, t \in Slots }, "eq", 1)

\* faulty form: a window of the slot itself, ignoring the duration
WindowSlotOnly(f, t) == Range(t, Min(t + 1, horizon))

\* range(max(0, t - flight_durations[f - 1] + 1), min(t + 1, horizon))
Window(f, t) == Range(Max(0, t - flight_durations[f] + 1), Min(t + 1, horizon))

\* [var_dict[(f, a, t2)] for f in flight_ids for t2 in range(...)]
WindowVars(a, t) ==
    UNION { { FVar(f, a, t2) : t2 \in Window(f, t) } : f \in flight_ids }

\* base.py:39  lpSum(window) <= 1
OneFlightConstraint(a, t) == Constraint("one_flight", WindowVars(a, t), "le", 1)

\* faulty form: only the flights that start at the maintenance slot are counted
NoStartDuringMaintenance(a, t) ==
    Constraint("no_flight_in_maintenance",
               { FVar(f, a, t) : f \in flight_ids } \cup {MVar(a, t)}, "le", 1)

\* base.py:41  lpSum(window) <= (1 - maintenance_var_dict[(a, t)])
NoFlightDuringMaintenance(a, t) ==
    Constraint("no_flight_in_maintenance", WindowVars(a, t) \cup {MVar(a, t)}, "le", 1)

\* flights_and_maintenance_sched.py:47  lpSum(window) + maintenance_dict[a, t] <= 1
OccupancyConstraint(a, t) ==
    Constraint("occupancy", WindowVars(a, t) \cup {MVar(a, t)}, "le", 1)

\* base.py:46  range(horizon - flight_durations[f - 1], horizon)
BaseExclusionRange(f) == Range(horizon - flight_durations[f], horizon)

\* faulty form: the exclusion starts one slot late
SchedExclusionRangeLate(f) == Range(horizon - flight_durations[f] + 2, horizon)

\* flights_and_maintenance_sched.py:52  range(schedule_length - d + 1, schedule_length)
SchedExclusionRange(f) == Range(horizon - flight_durations[f] + 1, horizon)

ExclusionRange(f) ==
    IF variant = "base" THEN BaseExclusionRange(f) ELSE SchedExclusionRange(f)

\* var_dict[(f, a, t)] == 0
ExclusionConstraint(f, a, t) == Constraint("exclude", {FVar(f, a, t)}, "eq", 0)

\* var_dict[(f, a, t)] of a start slot below 0 is no key of the dictionary
RaisesKeyError(f) == \E t \in ExclusionRange(f) : t \notin Slots

\* the constraints the exclusion loop adds for the flights of fs
ExclusionConstraints(fs) ==
    UNION { { ExclusionConstraint(f, a, t) : a \in aircraft_ids, t \in ExclusionRange(f) }
            : f \in fs }

\* base.py:52  maintenance_var_dict[(a, t)] == maintenance_schedules[a - 1][t]
FixedMaintenanceConstraint(a, t) ==
    Constraint("fixed_maintenance", {MVar(a, t)}, "eq", maintenance_schedules[a][t])

\* faulty form: the cap let through by one
CapConstraintLoose(t) ==
    Constraint("cap", { MVar(a, t) : a \in aircraft_ids }, "le", max_maintenance + 1)

\* base.py:59  lpSum([maintenance_var_dict[(a, t)] for a in aircraft_ids]) <= max_maintenance
CapConstraint(t) ==
    Constraint("cap", { MVar(a, t) : a \in aircraft_ids }, "le", max_maintenance)

\* flights_and_maintenance_sched.py:57  lpSum([maintenance_dict[a, t] for t in ...]) == 4
MaintenanceRequirement(a) ==
    Constraint("maintenance_requirement", { MVar(a, t) : t \in Slots }, "eq",
               MaintenanceRequired)

(***************************************************************************)
(* The solver (external).  Feasible(P) is the set of the assignments that  *)
(* satisfy every constraint of P.  It is enumerated block by block (the    *)
(* variables of one flight, then the maintenance variables of one          *)
(* aircraft); a constraint is tested as soon as all its variables are      *)
(* chosen, so the result is exactly                                        *)
(*     { val \in SUBSET AllVars : \A c \in P : Holds(c, val) }.            *)
(***************************************************************************)
RECURSIVE SubsetsUpTo(_, _)
SubsetsUpTo(B, k) ==
    IF k = 0 THEN {{}}
    ELSE LET smaller == SubsetsUpTo(B, k - 1)
         IN  smaller \cup { S \cup {v} : S \in smaller, v \in B }

\* a constraint over the whole block bounds the number of its true variables
SizeCap(P, B) ==
    LET cover == { c.rhs : c \in { d \in P : d.vars = B /\ d.rhs >= 0 } }
    IN  IF cover = {} THEN Cardinality(B)
        ELSE Min(Cardinality(B), CHOOSE m \in cover : \A n \in cover : m <= n)

BlockSols(P, B) ==
    LET local == { c \in P : c.vars \subseteq B }
    IN  { S \in SubsetsUpTo(B, SizeCap(P, B)) : \A c \in local : Holds(c, S) }

NumFlights == Cardinality(flight_ids)
NumBlocks == NumFlights + Cardinality(aircraft_ids)

Block(i) ==
    IF i <= NumFlights
    THEN { FVar(i, a, t) : a \in aircraft_ids, t \in Slots }
    ELSE { MVar(i - NumFlights, t) : t \in Slots }

RECURSIVE Extend(_, _, _, _)
Extend(P, i, partials, covered) ==
    IF i > NumBlocks THEN partials
    ELSE LET B == Block(i)
             now == covered \cup B
             fresh == { c \in P : /\ c.vars \subseteq now
                                  /\ ~ (c.vars \subseteq covered)
                                  /\ ~ (c.vars \subseteq B) }
             sols == BlockSols(P, B)
         IN  Extend(P, i + 1,
                    { T[1] \cup T[2] :
                        T \in { U \in partials \X sols :
                                  LET both == U[1] \cup U[2]
                                  IN  \A c \in fresh : Holds(c, both) } },
                    now)

Feasible(P) == Extend(P, 1, {{}}, {})

RECURSIVE SumCoefficients(_, _)
SumCoefficients(coef, S) ==
    IF S = {} THEN 0
    ELSE LET v == CHOOSE x \in S : TRUE
         IN  coef[v] + SumCoefficients(coef, S \ {v})

\* value(problem.objective)
ObjectiveValue(val) == SumCoefficients(objective, val \cap DOMAIN objective)

MinOf(S) == CHOOSE m \in S : \A n \in S : m <= n

Optimal(sols) ==
    LET best == MinOf({ ObjectiveValue(val) : val \in sols })
    IN  { val \in sols : ObjectiveValue(val) = best }

\* what an Infeasible solve may leave in the variables: nothing, or some 1s
Leftovers == { {}, { FVar(1, 1, 0), MVar(1, 0) } }

(***************************************************************************)
(* Printing.  The loops over var_dict and maintenance_dict run in key      *)
(* order and print one line per variable whose value is 1.                 *)
(***************************************************************************)
Before(u, v) ==
    \/ FlightOf(u) < FlightOf(v)
    \/ FlightOf(u) = FlightOf(v) /\ AircraftOf(u) < AircraftOf(v)
    \/ FlightOf(u) = FlightOf(v) /\ AircraftOf(u) = AircraftOf(v) /\ TimeOf(u) < TimeOf(v)

RECURSIVE InKeyOrder(_)
InKeyOrder(S) ==
    IF S = {} THEN <<>>
    ELSE LET first == CHOOSE u \in S : \A v \in S \ {u} : Before(u, v)
         IN  <<first>> \o InKeyOrder(S \ {first})

\* "Flight f is assigned to Aircraft a, starts at time t and ends at time t + d"
FlightLine(v) ==
    <<FlightOf(v), AircraftOf(v), TimeOf(v), TimeOf(v) + flight_durations[FlightOf(v)]>>

FlightLines ==
    LET keys == InKeyOrder(values \cap var_dict)
    IN  [i \in 1 .. Len(keys) |-> FlightLine(keys[i])]

\* "Aircraft a is under maintenance at time t"
MaintenanceLines ==
    LET keys == InKeyOrder(values \cap maintenance_var_dict)
    IN  [i \in 1 .. Len(keys) |-> <<AircraftOf(keys[i]), TimeOf(keys[i])>>]

\* "Aircraft a Maintenance Schedule: [...]", one line per aircraft
ScheduleRows ==
    [a \in 1 .. Cardinality(aircraft_ids) |->
        <<a, [i \in 1 .. horizon |-> IF MVar(a, i - 1) \in values THEN 1 ELSE 0]>>]

\* sum([maintenance_schedules[a - 1][t] for a in aircraft_ids])
total_maintenance(t) ==
    Cardinality({ a \in aircraft_ids : maintenance_schedules[a][t] = 1 })

\* "Time slot t has n maintenance sessions which exceed the limit"
ExceedsLimit(t) == total_maintenance(t) > max_maintenance

WarningLines ==
    LET slots == InKeyOrder({ MVar(0, t) : t \in { u \in Slots : ExceedsLimit(u) } })
    IN  [i \in 1 .. Len(slots) |-> <<TimeOf(slots[i]), total_maintenance(TimeOf(slots[i]))>>]

NoOutput ==
    [status |-> "", flights |-> <<>>, maintenance |-> <<>>, cost |-> <<>>,
     again |-> <<>>, rows |-> <<>>, warnings |-> <<>>]

(***************************************************************************)
(* Initial state: the data at the top of either script.  flight_durations  *)
(* holds the whole numbers of slots left by the rounding up of the raw     *)
(* durations.  The chosen-maintenance script has no fixed schedule and no  *)
(* cap: there maintenance_schedules is all 0 and max_maintenance is 0,     *)
(* and neither is read.                                                    *)
(***************************************************************************)
Init ==
    /\ variant \in {"base", "sched"}
    /\ aircraft_ids \in Fleets
    /\ flight_durations \in [flight_ids -> 1 .. MaxDur]
    /\ flight_costs \in CostTables
    /\ \/ /\ variant = "base"
          /\ horizon \in 1 .. MaxLen
          /\ maintenance_schedules \in [aircraft_ids -> [0 .. (horizon - 1) -> {0, 1}]]
          /\ max_maintenance \in 1 .. Cardinality(aircraft_ids)
       \/ /\ variant = "sched"
          /\ horizon \in 1 .. MaxSched
          /\ maintenance_schedules = [a \in aircraft_ids |-> [t \in 0 .. (horizon - 1) |-> 0]]
          /\ max_maintenance = 0
    /\ objective = [v \in {} |-> 0]
    /\ problem = {}
    /\ pc = "objective"
    /\ status = "Not Solved"
    /\ values = {}
    /\ out = NoOutput

(***************************************************************************)
(* Model building, shared by the two scripts.                              *)
(***************************************************************************)
\* base.py:28, flights_and_maintenance_sched.py:36
SetObjective ==
    /\ pc = "objective"
    /\ objective' = ObjectiveCoefficients
    /\ pc' = "unique"
    /\ UNCHANGED <<inputs, problem, status, values, out>>

\* base.py:32-33, flights_and_maintenance_sched.py:40-41
AddUniqueness ==
    /\ pc = "unique"
    /\ problem' = problem \cup { UniquenessConstraint(f) : f \in flight_ids }
    /\ pc' = "occupancy"
    /\ UNCHANGED <<inputs, objective, status, values, out>>

\* base.py:36-41
BaseAddOccupancy ==
    /\ pc = "occupancy"
    /\ variant = "base"
    /\ problem' = problem
          \cup { OneFlightConstraint(a, t) : a \in aircraft_ids, t \in Slots }
          \cup { NoFlightDuringMaintenance(a, t) : a \in aircraft_ids, t \in Slots }
    /\ pc' = "exclusion"
    /\ UNCHANGED <<inputs, objective, status, values, out>>

\* flights_and_maintenance_sched.py:44-47
SchedAddOccupancy ==
    /\ pc = "occupancy"
    /\ variant = "sched"
    /\ problem' = problem \cup { OccupancyConstraint(a, t) : a \in aircraft_ids, t \in Slots }
    /\ pc' = "exclusion"
    /\ UNCHANGED <<inputs, objective, status, values, out>>

\* base.py:44-47, flights_and_maintenance_sched.py:50-53.  The loop runs the
\* flights in order and stops at the first one whose range reaches below 0.
AddExclusion ==
    /\ pc = "exclusion"
    /\ LET bad == { f \in flight_ids : RaisesKeyError(f) }
       IN  IF bad = {}
           THEN /\ problem' = problem \cup ExclusionConstraints(flight_ids)
                /\ pc' = IF variant = "base" THEN "fixed_maintenance" ELSE "requirement"
           ELSE /\ problem' = problem
                      \cup ExclusionConstraints({ f \in flight_ids : f < MinOf(bad) })
                /\ pc' = "KeyError"
    /\ UNCHANGED <<inputs, objective, status, values, out>>

\* base.py:50-52
BaseFixMaintenance ==
    /\ pc = "fixed_maintenance"
    /\ problem' = problem
          \cup { FixedMaintenanceConstraint(a, t) : a \in aircraft_ids, t \in Slots }
    /\ pc' = "cap"
    /\ UNCHANGED <<inputs, objective, status, values, out>>

\* base.py:58-59
BaseAddCap ==
    /\ pc = "cap"
    /\ problem' = problem \cup { CapConstraint(t) : t \in Slots }
    /\ pc' = "warn"
    /\ UNCHANGED <<inputs, objective, status, values, out>>

\* base.py:62-65
BaseWarn ==
    /\ pc = "warn"
    /\ out' = [out EXCEPT !.warnings = WarningLines]
    /\ pc' = "solve"
    /\ UNCHANGED <<inputs, objective, problem, status, values>>

\* flights_and_maintenance_sched.py:56-57
SchedAddRequirement ==
    /\ pc = "requirement"
    /\ problem' = problem \cup { MaintenanceRequirement(a) : a \in aircraft_ids }
    /\ pc' = "solve"
    /\ UNCHANGED <<inputs, objective, status, values, out>>

(***************************************************************************)
(* problem.solve(): base.py:68, flights_and_maintenance_sched.py:60        *)
(***************************************************************************)
Solve ==
    /\ pc = "solve"
    /\ LET sols == Feasible(problem)
       IN  IF sols = {}
           THEN /\ status' = "Infeasible"
                /\ values' \in Leftovers
           ELSE /\ status' = "Optimal"
                /\ values' \in Optimal(sols)
    /\ pc' = "report"
    /\ UNCHANGED <<inputs, objective, problem, out>>

(***************************************************************************)
(* Reporting: the print statements that end either script.  They run one   *)
(* after the other on the values the solver left, whatever the status.     *)
(***************************************************************************)
\* base.py:70-80: status, one line per variable of var_dict at 1, the cost
BaseReport ==
    /\ pc = "report"
    /\ variant = "base"
    /\ out' = [out EXCEPT !.status = status,
                          !.flights = FlightLines,
                          !.cost = <<ObjectiveValue(values)>>]
    /\ pc' = "done"
    /\ UNCHANGED <<inputs, objective, problem, status, values>>

\* flights_and_maintenance_sched.py:62-87: status, flight lines, maintenance
\* lines, the cost, the flight lines again, one schedule row per aircraft
SchedReport ==
    /\ pc = "report"
    /\ variant = "sched"
    /\ out' = [out EXCEPT !.status = status,
                          !.flights = FlightLines,
                          !.maintenance = MaintenanceLines,
                          !.cost = <<ObjectiveValue(values)>>,
                          !.again = FlightLines,
                          !.rows = ScheduleRows]
    /\ pc' = "done"
    /\ UNCHANGED <<inputs, objective, problem, status, values>>

Next ==
    \/ SetObjective
    \/ AddUniqueness
    \/ BaseAddOccupancy
    \/ SchedAddOccupancy
    \/ AddExclusion
    \/ BaseFixMaintenance
    \/ BaseAddCap
    \/ BaseWarn
    \/ SchedAddRequirement
    \/ Solve
    \/ BaseReport
    \/ SchedReport

Spec == Init /\ [][Next]_vars

(***************************************************************************)
(* Notions the properties are stated with.                                 *)
(***************************************************************************)
\* every constraint has been added and the solver has not yet run
Built == pc = "solve"

\* the exclusion loop has completed
Excluded == pc \in {"fixed_maintenance", "cap", "warn", "requirement", "solve"}

Submitted == status # "Not Solved"

\* flight v occupies slot s: start <= s < start + duration
Covers(v, s) == TimeOf(v) <= s /\ s < TimeOf(v) + flight_durations[FlightOf(v)]

\* occupancy of aircraft a at slot s, reconstructed from the assignment
Occupancy(val, a, s) ==
    Cardinality({ v \in val \cap var_dict : AircraftOf(v) = a /\ Covers(v, s) })
      + (IF MVar(a, s) \in val THEN 1 ELSE 0)

StartsOf(val, f) == { v \in val \cap var_dict : FlightOf(v) = f }

\* the (aircraft, start) pairs the report lists for flight f
ListedPairs(f) ==
    { <<out.flights[i][2], out.flights[i][3]>> :
        i \in { j \in 1 .. Len(out.flights) : out.flights[j][1] = f } }
    \cup
    { <<out.again[i][2], out.again[i][3]>> :
        i \in { j \in 1 .. Len(out.again) : out.again[j][1] = f } }

\* C1: in every assignment that satisfies the constraints of either script,
\* each aircraft has at every slot at most one occupant: the flights whose
\* interval [start, start + duration) covers the slot plus the maintenance
\* indicator of the slot sum to at most 1.
C1_NoDoubleBooking ==
    Built => \A val \in Feasible(problem) :
               \A a \in aircraft_ids, s \in Slots : Occupancy(val, a, s) <= 1

C1_Witness ==
    /\ Built
    /\ \E val \in Feasible(problem) : \E a \in aircraft_ids :
         /\ Cardinality({ v \in val \cap var_dict : AircraftOf(v) = a }) = 2
         /\ \E s \in Slots : MVar(a, s) \in val
         /\ \A s \in Slots : Occupancy(val, a, s) = 1

\* C2: in every assignment that satisfies the constraints each flight has
\* exactly one true variable, and the report of an Optimal solve lists each
\* flight with exactly one (aircraft, start slot) pair.
C2_ExactlyOneStart ==
    /\ Built => \A val \in Feasible(problem) :
                  \A f \in flight_ids : Cardinality(StartsOf(val, f)) = 1
    /\ (pc = "done" /\ status = "Optimal") =>
          \A f \in flight_ids : Cardinality(ListedPairs(f)) = 1

C2_Witness ==
    /\ pc = "done" /\ status = "Optimal" /\ variant = "sched"
    /\ \A f \in flight_ids : Cardinality(ListedPairs(f)) = 1
    /\ Len(out.flights) = 2

\* C3: no assignment that satisfies the constraints starts a flight at a
\* slot t with t + duration > horizon, and no reported end slot of an
\* Optimal solve exceeds the horizon.
C3_CompletesWithinHorizon ==
    /\ Built => \A val \in Feasible(problem) :
                  \A v \in val \cap var_dict :
                     TimeOf(v) + flight_durations[FlightOf(v)] <= horizon
    /\ status = "Optimal" =>
          \A i \in 1 .. Len(out.flights) : out.flights[i][4] <= horizon

C3_Witness ==
    /\ pc = "done" /\ status = "Optimal"
    /\ \E i \in 1 .. Len(out.flights) :
         /\ out.flights[i][4] = horizon
         /\ out.flights[i][3] > 0

\* total cost of a set of (flight, aircraft) choices: cost[flight][aircraft] each
RECURSIVE SumCost(_)
SumCost(S) ==
    IF S = {} THEN 0
    ELSE LET p == CHOOSE x \in S : TRUE
         IN  flight_costs[p[1]][p[2]] + SumCost(S \ {p})

\* cost of the reported schedule; the start slot plays no part
DecodedCost ==
    SumCost({ <<out.flights[i][1], out.flights[i][2], out.flights[i][3]>> :
                i \in 1 .. Len(out.flights) })

AssignmentCost(val) ==
    SumCost({ <<FlightOf(v), AircraftOf(v), TimeOf(v)>> : v \in val \cap var_dict })

LeastCost(sols) == MinOf({ AssignmentCost(w) : w \in sols })

\* the least a schedule could cost if every flight took its cheapest aircraft
CheapestConceivable ==
    SumCost({ <<f, CHOOSE a \in aircraft_ids :
                     \A b \in aircraft_ids : flight_costs[f][a] <= flight_costs[f][b], 0>>
              : f \in flight_ids })

\* C4: after an Optimal solve the reported objective is the sum over the
\* flights of the cost of the aircraft the report assigns them to, the
\* reported values satisfy every constraint, and no assignment that
\* satisfies the constraints costs less than what the solver may return.
C4_ReportedCostIsMinimal ==
    /\ (pc = "done" /\ status = "Optimal") =>
          /\ out.cost = <<DecodedCost>>
          /\ out.cost = <<AssignmentCost(values)>>
          /\ \A c \in problem : Holds(c, values)
    /\ Built =>
          LET sols == Feasible(problem)
              least == LeastCost(sols)
          IN  sols # {} =>
                \A val \in Optimal(sols) : AssignmentCost(val) = least

C4_Witness ==
    /\ pc = "done" /\ status = "Optimal"
    /\ \E i, j \in 1 .. Len(out.flights) : out.flights[i][2] # out.flights[j][2]
    /\ out.cost = <<DecodedCost>>
    /\ out.cost[1] > CheapestConceivable

\* C5: under the chosen-maintenance script a set of maintenance slots of an
\* aircraft satisfies the maintenance requirement of that aircraft if and
\* only if it has at least MaintenanceRequired slots.
C5_RequirementIsLowerBound ==
    (variant = "sched" /\ Built) =>
        \A a \in aircraft_ids :
           \A m \in SUBSET { MVar(a, t) : t \in Slots } :
              Holds(MaintenanceRequirement(a), m) <=> Cardinality(m) >= MaintenanceRequired

\* the flight part of the assignments of a set
FlightParts(sols) == { val \cap var_dict : val \in sols }

WithoutCap(P) == { c \in P : c.kind # "cap" }

CapExceeded == \E t \in Slots : ExceedsLimit(t)

NoStartSlot(f) ==
    \A a \in aircraft_ids, t \in Slots : ExclusionConstraint(f, a, t) \in problem

C8_EmptyScheduleWhenInfeasible ==
    (pc = "done" /\ status = "Infeasible") =>
        /\ out.flights = <<>> /\ out.again = <<>>
        /\ out.maintenance = <<>> /\ out.rows = <<>>

\* C9: either script forces the variable (f, a, t) to zero exactly when
\* t + duration(f) > horizon.
C9_SameBoundary ==
    Excluded =>
        \A f \in flight_ids, a \in aircraft_ids, t \in Slots :
           ExclusionConstraint(f, a, t) \in problem
             <=> t + flight_durations[f] > horizon

\* C10: under the fixed-maintenance script no assignment that satisfies the
\* constraints lets a flight cover a slot at which its aircraft is in fixed
\* maintenance; so when the only aircraft is in maintenance at every slot
\* the solve ends Infeasible.
C10_NoFlightInFixedMaintenance ==
    /\ (variant = "base" /\ Built) =>
          \A val \in Feasible(problem) :
             \A v \in val \cap var_dict, s \in Slots :
                Covers(v, s) => maintenance_schedules[AircraftOf(v)][s] = 0
    /\ ( /\ variant = "base" /\ Submitted
         /\ aircraft_ids = {1}
         /\ \A s \in Slots : maintenance_schedules[1][s] = 1 ) => status = "Infeasible"

C10_Witness ==
    /\ variant = "base" /\ pc = "done" /\ status = "Optimal"
    /\ \E i \in 1 .. Len(out.flights) :
         /\ out.flights[i][4] \in Slots
         /\ maintenance_schedules[out.flights[i][2]][out.flights[i][4]] = 1
=============================================================================
